---------------------------- MODULE Spec2Model ----------------------------
(***************************************************************************)
(* A model of the particle visualisation: the procedural layout generator  *)
(* (ParticleScene's useMemo), the per-frame morph engine (ParticleScene's  *)
(* useFrame), the meteor spawner (ShootingStars' useFrame) and the shape    *)
(* selector (App).                                                         *)
(*                                                                         *)
(* Numbers.  The source computes with IEEE doubles.  The model computes    *)
(* in fixed point: a length is an integer number of PosUnit-ths of a scene *)
(* unit, a colour channel an integer number of 255ths, a time an integer   *)
(* number of ticks.  A product that is not a whole number of units is      *)
(* rounded to the nearest one, ties to even, as the double product is.     *)
(***************************************************************************)
EXTENDS Integers, Sequences, FiniteSets

(***************************************************************************)
(* Program constants.                                                      *)
(***************************************************************************)
TOTAL_COUNT == 6200
STAR_COUNT == 800
GARLAND_COUNT == 2500
TREE_HEIGHT == 14
MIN_HALO_GAP == 15
\* ShootingStars: const count = 6
count == 6

(***************************************************************************)
(* Units of the fixed-point representation.                                *)
(***************************************************************************)
\* scene lengths are held in thousandths of a scene unit
PosUnit == 10 * 100
\* frame deltas of the particle scene are held in sixtieths of a second
FrameTicksPerSecond == 6 * 10
\* the clock of the meteor spawner is held in tenths of a second
MeteorTicksPerSecond == 5 + 5

(***************************************************************************)
(* Bounds of the model.                                                    *)
(***************************************************************************)
\* the 4% highlight draw comes out true at no more than this many indices
MaxHaloDraws == 2
\* frames delivered in a run with arbitrary frame deltas
MaxFrames == 3
\* renders that change the shape, in a run with frames
MaxSwitches == 2
\* frames delivered in a run at a steady 60 Hz
SteadyFrames == 610
\* pointer coordinates range over 0 .. MaxCoord (pixels)
MaxCoord == 5
\* the pinch of a steady run starts within this many frames
MaxSwitchFrame == 2
\* the pinch of a steady run is released within this many frames of its start
MaxReleaseFrames == 12
\* the clock of a run of the meteor spawner stops at this many meteor ticks
MaxMeteorTime == 110
\* gesture results delivered to the App are counted up to this many
MaxDelivered == 1
\* frames with a hand are fed to the running camera loop up to this many, in
\* the runs with the pointer and in the runs that follow a wave
MaxGestureHands == 2
MaxWaveHands == 6
\* the clock time, in meteor ticks, up to which the run of the slot pool goes
MaxPoolTime == 200
\* the clock time, in meteor ticks, up to which frames keep arriving
MaxLiveTime == 90
\* the number of useBlobUrl calls of a run
MaxBlobCalls == 5
\* the number of detectGestures calls of a run that find a hand
MaxHandCalls == 11

VARIABLES
    \* ---- ParticleScene: output of the useMemo generator
    generated,      \* the useMemo callback has run
    dataLen,        \* data.length (particles.length)
    bands,          \* per band: how many indices took the branch, first, last
    lastHaloIndex,  \* the generator's lastHaloIndex when the loop ended
    haloIndices,    \* hIndices, in push order
    particles,      \* the particle records, for the tracked indices
    counts,         \* typeCounts: per shapeType, how many of the modelled records have it
    \* ---- ParticleScene: state written by useFrame
    haloScaleFactor,
    rotY,           \* meshDiamondRef.current.rotation.y, in units of 0.04 rad / FrameTicksPerSecond
    meshRotY,       \* rotation.y of the other four body meshes, the glare mesh, the
                    \* halo mesh and the media group, in the units of rotY
    idxEnd,         \* idx0 .. idx4 when the latest frame's forEach ended
    slotWrites,     \* the setMatrixAt calls of the latest frame's forEach:
                    \* which particle went to which slot of which body mesh
    instanceScale,  \* per tracked index, the scale of the body matrix last written
                    \* by setMatrixAt, in thousandths (-1 before the first frame)
    \* ---- App
    isCameraPinching,
    manualToggle,
    dragStart,
    shape,          \* the shape prop ParticleScene was last rendered with
    \* ---- ShootingStars
    controller,
    meteors,
    time,           \* state.clock.getElapsedTime() of the latest frame, in meteor ticks
    instanceColor,  \* per slot, the brightness last written by setColorAt, in thousandths
    \* ---- observation of the run
    lastDelta,      \* delta of the latest particle frame ("none" before the first)
    frame,          \* number of frames delivered
    switches,       \* number of renders that changed the shape
    sinceSwitch,    \* particle frames since the shape last changed
    \* ---- App, gesture-driven version: further state
    modeLocked,
    showNearestMaterial,
    status,
    error,
    \* ---- the browser's pointer event sequence on the Canvas
    pointerPhase,   \* "idle", "down" (pointerdown delivered), "click" (click due)
    lastPointer,    \* "none", "tap" or "drag": what the latest pointerup closed
    tapFlips,       \* manual-toggle flips by pointer handlers since the pointerdown
    \* ---- CameraHandler
    isMounted,      \* the effect's isMounted flag
    videoRef,       \* videoRef.current is the video element (not null)
    camPc,          \* where startCamera / requestCameraStream stands
    stream,         \* the MediaStream of getUserMedia: "none", "live", "stopped"
    srcObject,      \* the video element's srcObject is the stream
    rafPending,     \* a requestAnimationFrame(predictWebcam) is scheduled
    handLandmarker, \* gestureService: the landmarker is initialised
    seen,           \* App state the mounted handler's onGestureDetected closes over
    delivered,      \* number of gesture results delivered to the App (saturating)
    lastGesture,    \* the latest gesture result delivered
    gestureBit,     \* flips with every gesture result delivered
    permissions,    \* navigator.permissions: "unread", "absent", "present",
                    \* "listening" (a permissionStatus.onchange is installed)
    \* ---- ParticleScene: the blob cache of useBlobUrl
    blobCache,      \* per URL: the entry of the Map, or the absent entry
    fetchStarts,    \* per URL: how many times fetch(url) has been called
    inFlight,       \* per URL: promises of fetchWithFallback not yet settled
    objectUrls,     \* number of URL.createObjectURL calls so far
    blobCalls,      \* number of useBlobUrl calls so far
    lastBlob,       \* the latest useBlobUrl call: its url and how it left
    \* ---- gestureService: module state of the GestureResult version
    gestureHistory,         \* gestureHistory, oldest first
    previousGestureResult,  \* previousGestureResult, or NoPrevious for null
    detected,       \* the latest detectGestures call: its path and its result
    handCalls,      \* number of detectGestures calls that found a hand
    detectBit       \* flips with every detectGestures call

genVars == <<generated, dataLen, bands, lastHaloIndex, haloIndices, particles, counts>>
sceneVars == <<haloScaleFactor, rotY, meshRotY, instanceScale, idxEnd, slotWrites>>
appVars == <<isCameraPinching, manualToggle, dragStart, shape>>
meteorVars == <<controller, meteors, time, instanceColor>>
obsVars == <<lastDelta, frame, switches, sinceSwitch>>
gAppVars == <<modeLocked, showNearestMaterial, status, error>>
ptrVars == <<pointerPhase, lastPointer, tapFlips>>
camVars == <<isMounted, videoRef, camPc, stream, srcObject, rafPending,
             handLandmarker, seen, delivered, lastGesture, gestureBit,
             permissions>>
mediaVars == <<blobCache, fetchStarts, inFlight, objectUrls, blobCalls, lastBlob>>
detVars == <<gestureHistory, previousGestureResult, detected, handCalls, detectBit>>
svcVars == <<mediaVars, detVars>>
gestureVars == <<gAppVars, ptrVars, camVars, svcVars>>
vars == <<genVars, sceneVars, appVars, meteorVars, obsVars, gestureVars>>

Min(a, b) == IF a <= b THEN a ELSE b
Max(a, b) == IF a >= b THEN a ELSE b
Abs(a) == IF a < 0 THEN -a ELSE a

\* n / d rounded to the nearest integer, ties to even (d > 0)
RoundDiv(n, d) ==
    LET q == n \div d
        r == n % d
    IN  IF 2 * r < d THEN q
        ELSE IF 2 * r > d THEN q + 1
        ELSE IF q % 2 = 0 THEN q ELSE q + 1

(***************************************************************************)
(* The layout generator: the loop of ParticleScene's useMemo.              *)
(***************************************************************************)
Bands == {"star", "garland", "body"}

\* faulty variant: the star test written i <= STAR_COUNT
BandOfInclusive(i) ==
    IF i <= STAR_COUNT THEN "star"
    ELSE IF i < STAR_COUNT + GARLAND_COUNT THEN "garland"
    ELSE "body"

\* the band branch index i takes: if / else if / else
BandOf(i) ==
    IF i < STAR_COUNT THEN "star"
    ELSE IF i < STAR_COUNT + GARLAND_COUNT THEN "garland"
    ELSE "body"

\* faulty variant: the loop test written i <= TOTAL_COUNT
LoopIndicesInclusive == 0 .. TOTAL_COUNT

\* for (let i = 0; i < TOTAL_COUNT; i++): the indices the loop body runs for
LoopIndices == 0 .. (TOTAL_COUNT - 1)

\* data.length when the loop ends: one data.push per iteration
LoopCount == Cardinality(LoopIndices)

\* the indices whose iteration takes band b's branch
BandIndices(b) == {i \in LoopIndices : BandOf(i) = b}

SetMin(S) == IF S = {} THEN -1 ELSE CHOOSE x \in S : \A y \in S : x <= y
SetMax(S) == IF S = {} THEN -1 ELSE -SetMin({-x : x \in S})

\* per band: how many iterations took its branch, the first and the last
BandSummary ==
    [b \in Bands |->
        LET S == BandIndices(b)
        IN  [n |-> Cardinality(S), first |-> SetMin(S), last |-> SetMax(S)]]

\* faulty variant: the gap test dropped: any later index may be a highlight
HaloGapIgnored(i, last) == i - last > 0

\* the garland branch's gap test
HaloGapOpen(i, last) == i - last > MIN_HALO_GAP

\* let lastHaloIndex = -100; const hIndices = []
HaloStart == [lastHaloIndex |-> -100, hIndices |-> << >>]

\* What one iteration does to lastHaloIndex and hIndices, for index i; draws
\* is the set of indices at which Math.random() < 0.04 comes out true when
\* it is asked.
GenBody(g, i, draws) ==
    LET band == BandOf(i)
        isHalo == band = "garland" /\ HaloGapOpen(i, g.lastHaloIndex) /\ i \in draws
        pushed == (band = "star" /\ i = 0) \/ isHalo
    IN  [ lastHaloIndex |-> IF isHalo THEN i ELSE g.lastHaloIndex,
          hIndices |-> IF pushed THEN Append(g.hIndices, i) ELSE g.hIndices ]

\* The iterations for the indices of todo, in increasing order.
RECURSIVE GenScan(_, _, _)
GenScan(g, todo, draws) ==
    IF todo = {} THEN g
    ELSE LET i == SetMin(todo)
             next == GenBody(g, i, draws)
         IN  GenScan(next, todo \ {i}, draws)

\* The whole loop.  An iteration whose index is neither 0 nor in draws leaves
\* lastHaloIndex and hIndices as they are, so the scan visits the others.
GenLoop(draws) ==
    GenScan(HaloStart, {i \in draws \cup {0} : i \in LoopIndices}, draws)

(***************************************************************************)
(* The particle records.  The store holds TOTAL_COUNT records; a frame     *)
(* treats every record alike and no record reads another, so the model     *)
(* follows the records of the first index of each band.                    *)
(***************************************************************************)
Tracked == {0, STAR_COUNT, STAR_COUNT + GARLAND_COUNT}

Shapes == {"GALAXY", "TREE"}

\* the colours the generator makes with new THREE.Color(...), as 8-bit
\* channels
cCore == <<255, 236, 210>>
cGold == <<255, 174, 66>>
cDust == <<139, 69, 19>>
cBlue == <<79, 195, 247>>
cDarkBlue == <<26, 35, 126>>
cWhite == <<255, 255, 255>>
colorTree == <<16, 185, 129>>
colorTreeDark == <<5, 150, 105>>
colorRed == <<239, 68, 68>>
colorStar == <<255, 247, 0>>
colorGarlandGold == <<251, 191, 36>>
colorHighlight == <<255, 204, 0>>

\* n / d rounded to the nearest integer, a half rounded up (d > 0)
RoundHalfUp(n, d) == (2 * n + d) \div (2 * d)

\* a.lerp(b, num / den) for colours a and b
ColorLerp(a, b, num, den) ==
    [k \in 1..3 |-> RoundHalfUp(a[k] * den + (b[k] - a[k]) * num, den)]

\* What the Math.random() calls of one iteration come to, for a tracked
\* index (i % 5 = 0, branchAngle 0).  Draws are in thousandths, positions in
\* thousandths of a unit, angles in milliradians.
\*   distRatio: Math.pow(t, 1.2); profile 1 has t = 0.31498 (radius 4.5),
\*     profile 2 has t = 0.65332 (radius 10.8)
\*   galaxyPos: gx, gy, gz at that radius with the randomSpread draw 0.5
\*     (angle = radius * 0.45) and the gy draws 0.64184 and 0.20930
\*   noise, blueLerp: the draws of gColor
\*   starPos, starScale, starLerp: a star other than the hero: the angle,
\*     dist, tz and size draws, and the draw of tColor
\*   garlandPos: index STAR_COUNT (pathRadius 0.1, baseAngle 0) with
\*     rScatter, hScatter, aScatter = 0.2007, 0.2, 0.0666 and -0.204, -0.2, 0.12
\*   garlandColor: the draw compared with 0.5
\*   bodyPos: the h, r and theta draws; ornament, ornType, treeLerp: the
\*     draws of the body's tColor
DrawProfile(k) ==
    IF k = 1
    THEN [ shapeType |-> 0, distRatio |-> 250,
           galaxyPos |-> <<-2369, 1000, 4044>>,
           noise |-> 300, blueLerp |-> 400,
           starPos |-> <<400, 8100, 100>>, starScale |-> 400, starLerp |-> 500,
           garlandPos |-> <<300, 7200, 20>>, garlandColor |-> 750,
           bodyPos |-> <<1500, -3000, -1000>>,
           ornament |-> 500, ornType |-> 700, treeLerp |-> 400,
           rotation |-> <<1000, 2000, 0>>, rotationSpeed |-> <<10, -5, 3>>,
           baseScale |-> 200 ]
    ELSE [ shapeType |-> 3, distRatio |-> 600,
           galaxyPos |-> <<1906, -1500, -10683>>,
           noise |-> 500, blueLerp |-> 400,
           starPos |-> <<-300, 7500, -50>>, starScale |-> 300, starLerp |-> 200,
           garlandPos |-> <<-103, 6800, -12>>, garlandColor |-> 250,
           bodyPos |-> <<-4000, -6500, 2000>>,
           ornament |-> 960, ornType |-> 700, treeLerp |-> 400,
           rotation |-> <<500, 3000, 0>>, rotationSpeed |-> <<-15, 0, 7>>,
           baseScale |-> 400 ]

Profiles == {1, 2}

\* tx, ty, tz of index 0: (0, TREE_HEIGHT / 2 + 0.8, 0)
HeroTreePos == <<0, (TREE_HEIGHT * PosUnit) \div 2 + (8 * PosUnit) \div 10, 0>>

\* gColor for the draws d: by distRatio the core, the arms or the rim
GalaxyColor(d) ==
    IF d.distRatio < 150 THEN ColorLerp(cCore, cGold, d.noise, 2000)
    ELSE IF d.distRatio < 500
    THEN (IF d.noise > 600 THEN cDust ELSE ColorLerp(cGold, cWhite, 3, 10))
    ELSE IF d.noise > 700 THEN ColorLerp(cDarkBlue, cDust, 1, 2)
    ELSE ColorLerp(cBlue, cWhite, d.blueLerp, 2000)

\* tColor of index i for the draws d
TreeColor(i, isHalo, d) ==
    IF BandOf(i) = "star"
    THEN (IF i = 0 THEN cWhite ELSE ColorLerp(colorStar, cWhite, 3 * d.starLerp, 10000))
    ELSE IF BandOf(i) = "garland"
    THEN (IF isHalo THEN colorHighlight
          ELSE IF d.garlandColor > 500 THEN colorRed ELSE colorGarlandGold)
    ELSE IF d.ornament > 950
    THEN (IF d.ornType > 600 THEN colorRed
          ELSE IF d.ornType > 300 THEN colorGarlandGold ELSE cWhite)
    ELSE ColorLerp(colorTree, colorTreeDark, d.treeLerp, 1000)

\* specificScaleMultiplier of index i for the draws d, in thousandths
ScaleMultiplier(i, isHalo, d) ==
    IF BandOf(i) = "star" THEN (IF i = 0 THEN 5000 ELSE d.starScale)
    ELSE IF BandOf(i) = "garland" THEN (IF isHalo THEN 1000 ELSE 500)
    ELSE 1000 - RoundDiv(4 * d.distRatio, 10)

\* data.push({...}) for index i
NewParticle(i, isHalo, d) ==
    LET band == BandOf(i)
        g == IF i = 0 THEN <<0, 0, 0>> ELSE d.galaxyPos
        t == IF band = "star" THEN (IF i = 0 THEN HeroTreePos ELSE d.starPos)
             ELSE IF band = "garland" THEN d.garlandPos
             ELSE d.bodyPos
        gColor == GalaxyColor(d)
    IN  [ band |-> band,
          shapeType |-> d.shapeType,
          currentPos |-> g,
          targetPos |-> [galaxy |-> g, tree |-> t],
          currentColor |-> gColor,
          targetColor |-> [galaxy |-> gColor, tree |-> TreeColor(i, isHalo, d)],
          rotation |-> d.rotation,
          rotationSpeed |-> d.rotationSpeed,
          scale |-> RoundDiv(d.baseScale * ScaleMultiplier(i, isHalo, d), 1000) ]

SeqRange(s) == {s[k] : k \in 1..Len(s)}

\* what the useMemo callback returns, for the given draws
GenResult(draws, prof) ==
    LET g == GenLoop(draws)
    IN  [ dataLen |-> LoopCount,
          bands |-> BandSummary,
          lastHaloIndex |-> g.lastHaloIndex,
          haloIndices |-> g.hIndices,
          particles |-> [i \in Tracked |->
                            NewParticle(i, i \in SeqRange(g.hIndices), DrawProfile(prof))] ]

\* the index of the k-th true draw: gaps[j] indices after the (j-1)-th
RECURSIVE DrawAt(_, _)
DrawAt(gaps, k) ==
    IF k = 0 THEN STAR_COUNT - 1 ELSE DrawAt(gaps, k - 1) + gaps[k]

\* the distances between one true highlight draw and the next (or the start
\* of the garland band): the next index, which the gap test refuses after a
\* highlight, and the first distance it admits
DrawGaps == {1, MIN_HALO_GAP + 1}

\* the sets of indices at which the highlight draw may come out true
HaloDrawSets ==
    { {DrawAt(gaps, k) : k \in 1..Len(gaps)} :
        gaps \in UNION {[1..n -> DrawGaps] : n \in 0..MaxHaloDraws} }

(***************************************************************************)
(* Initial values of the parts.                                            *)
(***************************************************************************)
\* App: useState(false), useState(false), useRef({x: 0, y: 0}); first render
\* faulty variant: the two flags combined with && instead of ||
CurrentShapeBoth(pinching, toggle) ==
    IF pinching /\ toggle THEN "TREE" ELSE "GALAXY"

\* currentShape = (isCameraPinching || manualToggle) ? TREE : GALAXY
CurrentShape(pinching, toggle) ==
    IF pinching \/ toggle THEN "TREE" ELSE "GALAXY"

InitApp ==
    /\ isCameraPinching = FALSE
    /\ manualToggle = FALSE
    /\ dragStart = [x |-> 0, y |-> 0]
    /\ shape = CurrentShape(FALSE, FALSE)

InitObs ==
    /\ lastDelta = "none"
    /\ frame = 0
    /\ switches = 0
    /\ sinceSwitch = 0

\* the values of shapeType: Math.floor(Math.random() * 5)
ShapeKinds == 0 .. 4

\* typeCounts[shapeType]++ over the iterations that made the records ps
TypeCounts(ps) ==
    [k \in ShapeKinds |-> Cardinality({i \in DOMAIN ps : ps[i].shapeType = k})]

\* let idx0 = 0, idx1 = 0, idx2 = 0, idx3 = 0, idx4 = 0; nothing written yet
NoDispatch == [idx |-> [k \in ShapeKinds |-> 0], writes |-> {}]

\* the objects besides meshDiamondRef whose rotation.y a frame sets; they
\* are children of the one group ParticleScene returns, created with it
OtherMeshes == {"shard", "orb", "cube", "sphere", "glare", "halo", "mediaGroup"}

\* the scene's frame state before the first frame
InitScene ==
    /\ haloScaleFactor = 0
    /\ rotY = 0
    /\ meshRotY = [m \in OtherMeshes |-> 0]
    /\ instanceScale = [i \in Tracked |-> -1]
    /\ idxEnd = NoDispatch.idx
    /\ slotWrites = NoDispatch.writes

\* ParticleScene before its first render
InitUngenerated ==
    /\ generated = FALSE
    /\ counts = [k \in ShapeKinds |-> 0]
    /\ dataLen = 0
    /\ bands = [b \in Bands |-> [n |-> 0, first |-> -1, last |-> -1]]
    /\ lastHaloIndex = HaloStart.lastHaloIndex
    /\ haloIndices = << >>
    /\ particles = << >>
    /\ InitScene

\* ParticleScene after a first render that made the records ps for the
\* tracked indices, the highlight draw never true
InitGeneratedAs(ps) ==
    /\ generated = TRUE
    /\ LET r == GenResult({}, 1)
       IN  /\ dataLen = r.dataLen
           /\ bands = r.bands
           /\ lastHaloIndex = r.lastHaloIndex
           /\ haloIndices = r.haloIndices
    /\ particles = ps
    /\ counts = TypeCounts(ps)
    /\ InitScene

\* ParticleScene after its first render, the highlight draw never true
InitGenerated ==
    \E prof \in Profiles : InitGeneratedAs(GenResult({}, prof).particles)

\* the records ps with the shapeType draw of each iteration taken on its own
WithTypes(ps, types) ==
    [i \in Tracked |-> [ps[i] EXCEPT !.shapeType = types[i]]]

\* the same with the shapeType draw of each record taken on its own
InitTypesDrawn ==
    \E prof \in Profiles, types \in [Tracked -> ShapeKinds] :
        InitGeneratedAs(WithTypes(GenResult({}, prof).particles, types))

(***************************************************************************)
(* ParticleScene's first render: the useMemo callback runs once.           *)
(***************************************************************************)
Generate ==
    /\ ~generated
    /\ generated' = TRUE
    /\ dataLen' = LoopCount
    /\ bands' = BandSummary
    /\ \E draws \in HaloDrawSets :
          LET g == GenLoop(draws)
          IN  /\ lastHaloIndex' = g.lastHaloIndex
              /\ haloIndices' = g.hIndices
    /\ \E prof \in Profiles, types \in [Tracked -> ShapeKinds] :
          /\ particles' = WithTypes(
                [i \in Tracked |->
                    NewParticle(i, i \in SeqRange(haloIndices'), DrawProfile(prof))],
                types)
          /\ counts' = TypeCounts(particles')
    /\ UNCHANGED <<sceneVars, appVars, meteorVars, obsVars, gestureVars>>


(***************************************************************************)
(* App: the shape selector.                                                *)
(***************************************************************************)
\* A render of App after a state update: ParticleScene receives currentShape.
Render ==
    /\ shape' = CurrentShape(isCameraPinching', manualToggle')
    /\ switches' = IF shape' # shape THEN Min(switches + 1, MaxSwitches) ELSE switches
    /\ sinceSwitch' = IF shape' # shape THEN 0 ELSE sinceSwitch

\* onPinchChange={setIsCameraPinching}
SetIsCameraPinching(b) ==
    /\ isCameraPinching' = b
    /\ UNCHANGED <<manualToggle, dragStart>>
    /\ Render
    /\ UNCHANGED <<genVars, sceneVars, meteorVars, lastDelta, frame, gAppVars, camVars, svcVars>>

\* handlePointerDown
handlePointerDown(x, y) ==
    /\ dragStart' = [x |-> x, y |-> y]
    /\ UNCHANGED <<isCameraPinching, manualToggle, shape>>
    /\ UNCHANGED <<genVars, sceneVars, meteorVars, obsVars, gAppVars, camVars, svcVars>>

\* distance < 5, with distance = Math.sqrt(dx * dx + dy * dy)
IsClick(dx, dy) == dx * dx + dy * dy < 5 * 5

\* handlePointerUp
handlePointerUp(x, y) ==
    /\ manualToggle' = IF IsClick(x - dragStart.x, y - dragStart.y)
                       THEN ~manualToggle ELSE manualToggle
    /\ UNCHANGED <<isCameraPinching, dragStart>>
    /\ Render
    /\ UNCHANGED <<genVars, sceneVars, meteorVars, lastDelta, frame, gAppVars, camVars, svcVars>>

PointerCoords == 0 .. MaxCoord

PinchChange == (\E b \in BOOLEAN : SetIsCameraPinching(b)) /\ UNCHANGED ptrVars
PointerDown ==
    /\ \E x \in PointerCoords, y \in PointerCoords : handlePointerDown(x, y)
    /\ UNCHANGED ptrVars
PointerUp ==
    /\ \E x \in PointerCoords, y \in PointerCoords : handlePointerUp(x, y)
    /\ UNCHANGED ptrVars

(***************************************************************************)
(* ParticleScene: the useFrame callback.                                   *)
(***************************************************************************)
\* THREE.MathUtils.clamp(value, min, max)
Clamp(value, lo, hi) == Max(lo, Min(hi, value))

\* faulty variant: the clamp's lower bound above zero
LerpFactorFloor(delta) == Clamp(2 * delta, 1, FrameTicksPerSecond)

\* faulty variant: the clamp dropped
LerpFactorUnclamped(delta) == 2 * delta

\* faulty variant: the smoothing rate halved
LerpFactorSlow(delta) == Clamp(delta, 0, FrameTicksPerSecond)

\* lerpFactor = clamp(delta * 2.0, 0, 1), in FrameTicksPerSecond-ths; delta in ticks
LerpFactor(delta) == Clamp(2 * delta, 0, FrameTicksPerSecond)

\* faulty variant: the step taken with the wrong sign
Lerp1Away(x, v, f) == x - RoundDiv((v - x) * f, FrameTicksPerSecond)

\* one component of Vector3.lerp / Color.lerp: x += (v - x) * alpha
Lerp1(x, v, f) == x + RoundDiv((v - x) * f, FrameTicksPerSecond)

\* particle.currentPos.lerp(target, lerpFactor), particle.currentColor.lerp(...)
Lerp3(cur, target, f) == [k \in 1..3 |-> Lerp1(cur[k], target[k], f)]

\* faulty variant: the two targets exchanged
TargetOfSwapped(pair, sh) == IF sh = "TREE" THEN pair.galaxy ELSE pair.tree

\* shape === ShapeType.TREE ? x.tree : x.galaxy
TargetOf(pair, sh) == IF sh = "TREE" THEN pair.tree ELSE pair.galaxy

\* THREE.MathUtils.lerp(haloScaleFactor.current, targetHaloScale, delta * 3.0):
\* (1 - t) * x + t * y, in thousandths
HaloLerp(x, sh, delta) ==
    LET y == IF sh = "TREE" THEN 1000 ELSE 0
    IN  RoundDiv((FrameTicksPerSecond - 3 * delta) * x + 3 * delta * y,
                 FrameTicksPerSecond)

\* faulty variant: currentPos and targetPos.galaxy one shared vector
StepParticleAliased(p, sh, f) ==
    [p EXCEPT !.currentPos = Lerp3(@, TargetOf(p.targetPos, sh), f),
              !.targetPos.galaxy = Lerp3(p.currentPos, TargetOf(p.targetPos, sh), f),
              !.currentColor = Lerp3(@, TargetOf(p.targetColor, sh), f),
              !.rotation = <<@[1] + p.rotationSpeed[1], @[2] + p.rotationSpeed[2], @[3]>>]

\* the body of particles.forEach for one particle
StepParticle(p, sh, f) ==
    [p EXCEPT !.currentPos = Lerp3(@, TargetOf(p.targetPos, sh), f),
              !.currentColor = Lerp3(@, TargetOf(p.targetColor, sh), f),
              !.rotation = <<@[1] + p.rotationSpeed[1], @[2] + p.rotationSpeed[2], @[3]>>]

\* faulty variant: the hero's body drawn like any other
GeomScaleStored(i, p) == p.scale

\* geomScale = (i === 0) ? 0 : particle.scale
GeomScale(i, p) == IF i = 0 THEN 0 ELSE p.scale

\* faulty variant: the glare mesh, the halo mesh and the media group left out
SyncRotationBodies(old, newRotY) ==
    [m \in OtherMeshes |->
        IF m \in {"glare", "halo", "mediaGroup"} THEN old[m] ELSE newRotY]

\* meshShardRef.current.rotation.y = newRotY; ... mediaGroupRef.current.rotation.y = newRotY
SyncRotation(old, newRotY) == [m \in OtherMeshes |-> newRotY]

\* faulty variant: the last branch of the dispatch missing, its particles
\* going the way of the branch before
BucketOfNoSphere(t) ==
    IF t = 0 THEN 0 ELSE IF t = 1 THEN 1 ELSE IF t = 2 THEN 2 ELSE 3

\* if (particle.shapeType === 0) ... else if (=== 1) ... (=== 2) ... (=== 3)
\* ... else: the body mesh the particle is written to
BucketOf(t) ==
    IF t = 0 THEN 0 ELSE IF t = 1 THEN 1 ELSE IF t = 2 THEN 2
    ELSE IF t = 3 THEN 3 ELSE 4

\* the setMatrixAt / idx++ of particles.forEach, for the indices of todo in
\* increasing order
RECURSIVE DispatchScan(_, _, _)
DispatchScan(ps, todo, d) ==
    IF todo = {} THEN d
    ELSE LET i == SetMin(todo)
             k == BucketOf(ps[i].shapeType)
         IN  DispatchScan(ps, todo \ {i},
                 [ idx |-> [d.idx EXCEPT ![k] = @ + 1],
                   writes |-> d.writes \cup
                                {[bucket |-> k, slot |-> d.idx[k], particle |-> i]} ])

\* the whole forEach of one frame
Dispatch(ps) == DispatchScan(ps, DOMAIN ps, NoDispatch)

\* useFrame((state, delta) => { ... })
useFrame(delta) ==
    /\ generated
    /\ haloScaleFactor' = HaloLerp(haloScaleFactor, shape, delta)
    /\ rotY' = rotY + delta
    /\ meshRotY' = SyncRotation(meshRotY, rotY + delta)
    /\ particles' = [i \in Tracked |-> StepParticle(particles[i], shape, LerpFactor(delta))]
    /\ instanceScale' = [i \in Tracked |-> GeomScale(i, particles[i])]
    /\ idxEnd' = Dispatch(particles).idx
    /\ slotWrites' = Dispatch(particles).writes
    /\ lastDelta' = delta
    /\ frame' = frame + 1
    /\ sinceSwitch' = sinceSwitch + 1
    /\ UNCHANGED <<generated, dataLen, bands, lastHaloIndex, haloIndices, counts>>
    /\ UNCHANGED <<appVars, meteorVars, switches, gestureVars>>

\* the frame deltas a run with arbitrary deltas delivers, in ticks: negative,
\* zero, 1/60 s, 1/4 s, 1/2 s and 3/2 s
FrameDeltas == {-1, 0, 1, 15, 30, 90}

Frame == frame < MaxFrames /\ \E delta \in FrameDeltas : useFrame(delta)

\* a frame of the run that follows the dispatch: no time passed, or 1/60 s
DispatchFrame == frame < MaxFrames /\ \E delta \in {0, 1} : useFrame(delta)

\* a frame of a display that delivers a frame every 1/60 s
SteadyFrame == frame < SteadyFrames /\ useFrame(1)

\* the frame deltas of displays that deliver their frames at a steady rate,
\* in ticks: 1/60 s, 1/30 s, and 1/2 s, where the factor reaches 1
SteadyDeltas == {1, 2, 30}

\* a frame of a display that delivers its frames at one of the steady rates,
\* the same through the run
RateFrame ==
    /\ frame < SteadyFrames
    /\ \E delta \in SteadyDeltas :
          /\ IF frame = 0 THEN TRUE ELSE lastDelta = delta
          /\ useFrame(delta)

\* the camera pinch flag changes, in a run with frames
Pinch ==
    /\ switches < MaxSwitches
    /\ \E b \in BOOLEAN : SetIsCameraPinching(b)
    /\ UNCHANGED ptrVars

\* the camera pinch starts, once, in a run at a steady 60 Hz
PinchOnce ==
    /\ switches = 0 /\ frame <= MaxSwitchFrame
    /\ SetIsCameraPinching(TRUE)
    /\ UNCHANGED ptrVars

\* the camera pinch ends while the particles are on their way to the tree
PinchRelease ==
    /\ switches = 1 /\ sinceSwitch <= MaxReleaseFrames
    /\ SetIsCameraPinching(FALSE)
    /\ UNCHANGED ptrVars

(***************************************************************************)
(* ShootingStars.                                                          *)
(***************************************************************************)
Slots == 1 .. count

\* new Array(count).fill(0).map(() => ({ active: false, startTime: 0, ... }))
InitMeteors ==
    /\ meteors = [s \in Slots |->
                    [active |-> FALSE, startTime |-> 0, life |-> 0, fadeDuration |-> 0]]
    \* useEffect: controller.current.nextSpawnTime = 2.0
    /\ controller = [nextSpawnTime |-> 2 * MeteorTicksPerSecond, burstRemaining |-> 0]
    /\ time = 0
    \* useEffect: meshRef.current.setColorAt(i, white) for every slot
    /\ instanceColor = [s \in Slots |-> 1000]

\* faulty variant: the first slot taken whether or not it is active
FindFirstSlot(ms) == 1

\* meteors.current.find(m => !m.active): the first inactive slot, 0 for undefined
FindAvailable(ms) ==
    IF \A s \in Slots : ms[s].active THEN 0
    ELSE CHOOSE s \in Slots : ~ms[s].active /\ \A r \in 1..(s - 1) : ms[r].active

\* values of Math.random(), in thousandths: 0, just under and at 1/3, 1/2
\* and 2/3, and just under 1
RandomDraws == {0, 333, 334, 499, 500, 666, 667, 999}

\* 1 + Math.floor(Math.random() * 2)
BurstOf(r) == 1 + (r * 2) \div 1000

\* What Math.random() comes to in a frame, in meteor ticks:
BurstDraws == {BurstOf(r) : r \in RandomDraws}
\* (Math.random() * 1.5) * 0.5, in [0, 0.75)
FadeDraws == {0, 7}
\* 0.4 + Math.random() * 0.2, in [0.4, 0.6)
LifeBaseDraws == {4, 5}
\* 0.1 + Math.random() * 0.4, in [0.1, 0.5)
BurstGapDraws == {1, 4}
\* 5.0 + Math.random() * 4.0, in [5, 9): its least value
IntervalDraws == {50}

\* faulty variant: controller.current.burstRemaining-- left out
SpawnStepNoCountdown(c, ms, t, d) ==
    IF ~(t > c.nextSpawnTime) THEN [c |-> c, ms |-> ms]
    ELSE LET burst == IF c.burstRemaining = 0 THEN d.burst ELSE c.burstRemaining
             slot == FindAvailable(ms)
             life == d.lifeBase + d.fade
         IN  IF slot # 0
             THEN [ ms |-> [ms EXCEPT ![slot] =
                              [active |-> TRUE, startTime |-> t, life |-> life,
                               fadeDuration |-> d.fade]],
                    c |-> [ burstRemaining |-> burst,
                            nextSpawnTime |-> t + d.gap ] ]
             ELSE [ ms |-> ms,
                    c |-> [burstRemaining |-> burst, nextSpawnTime |-> t + 1] ]

\* the spawning part of the frame; d holds the frame's draws
SpawnStep(c, ms, t, d) ==
    IF ~(t > c.nextSpawnTime) THEN [c |-> c, ms |-> ms]
    ELSE LET burst == IF c.burstRemaining = 0 THEN d.burst ELSE c.burstRemaining
             slot == FindAvailable(ms)
             life == d.lifeBase + d.fade
         IN  IF slot # 0
             THEN [ ms |-> [ms EXCEPT ![slot] =
                              [active |-> TRUE, startTime |-> t, life |-> life,
                               fadeDuration |-> d.fade]],
                    c |-> [ burstRemaining |-> burst - 1,
                            nextSpawnTime |-> IF burst - 1 > 0 THEN t + d.gap
                                              ELSE t + life + d.interval ] ]
             ELSE [ ms |-> ms,
                    c |-> [burstRemaining |-> burst, nextSpawnTime |-> t + 1] ]

\* faulty variant: the slot never marked inactive
UpdateMeteorNever(m, t) == m

\* faulty variant: the slot kept for a tick after the life has passed
UpdateMeteorLate(m, t) ==
    IF m.active /\ t - m.startTime > m.life + 1 THEN [m EXCEPT !.active = FALSE] ELSE m

\* the update part of the frame, for one meteor: if (elapsed > m.life) m.active = false
UpdateMeteor(m, t) ==
    IF m.active /\ t - m.startTime > m.life THEN [m EXCEPT !.active = FALSE] ELSE m

\* faulty variant: the fade left out
BrightnessNoFade(m, t) == 1000

\* the brightness of new THREE.Color(brightness, brightness, brightness) for
\* an active meteor, in thousandths
Brightness(m, t) ==
    LET elapsed == t - m.startTime
        timeRemaining == m.life - elapsed
    IN  IF timeRemaining < m.fadeDuration /\ m.fadeDuration > 0
        THEN Clamp(RoundDiv(1000 * timeRemaining, m.fadeDuration), 0, 1000)
        ELSE 1000

\* ShootingStars' useFrame, at clock time t
MeteorFrame(t, d) ==
    LET sp == SpawnStep(controller, meteors, t, d)
    IN  /\ time' = t
        /\ controller' = sp.c
        /\ meteors' = [s \in Slots |-> UpdateMeteor(sp.ms[s], t)]
        \* setColorAt(i, c) in the branch of an active meteor only
        /\ instanceColor' = [s \in Slots |->
                                IF sp.ms[s].active THEN Brightness(sp.ms[s], t)
                                ELSE instanceColor[s]]
        /\ UNCHANGED <<genVars, sceneVars, appVars, obsVars, gestureVars>>

\* the clock advance between two frames, in meteor ticks
ClockSteps == {1, 60}

MeteorDraws ==
    [burst : BurstDraws, fade : FadeDraws, lifeBase : LifeBaseDraws,
     gap : BurstGapDraws, interval : IntervalDraws]

\* a frame that does not spawn calls Math.random() nowhere
NoDraws == [burst |-> 0, fade |-> 0, lifeBase |-> 0, gap |-> 0, interval |-> 0]

MeteorTick ==
    \E dt \in ClockSteps :
        /\ time + dt <= MaxMeteorTime
        /\ IF time + dt > controller.nextSpawnTime
           THEN \E d \in MeteorDraws : MeteorFrame(time + dt, d)
           ELSE MeteorFrame(time + dt, NoDraws)

\* The draws that press the pool hardest: the longest fade and life, the
\* shortest gap within a burst and the shortest interval between bursts.
PoolDraws ==
    [burst : BurstDraws, fade : {SetMax(FadeDraws)}, lifeBase : {SetMax(LifeBaseDraws)},
     gap : {SetMin(BurstGapDraws)}, interval : IntervalDraws]

\* the clock advance between two frames of that run, in meteor ticks: a
\* short frame, and a gap longer than any life plus the shortest interval
PoolClockSteps == {1, 70}

\* a frame of the run that follows the pool over several bursts
PoolTick ==
    \E dt \in PoolClockSteps :
        /\ time + dt <= MaxPoolTime
        /\ IF time + dt > controller.nextSpawnTime
           THEN \E d \in PoolDraws : MeteorFrame(time + dt, d)
           ELSE MeteorFrame(time + dt, NoDraws)

\* the draws of the run in which frames keep arriving
LiveDraws ==
    [burst : BurstDraws, fade : FadeDraws, lifeBase : {SetMin(LifeBaseDraws)},
     gap : BurstGapDraws, interval : IntervalDraws]

\* a frame of that run
LiveTick ==
    \E dt \in ClockSteps :
        /\ time + dt <= MaxLiveTime
        /\ IF time + dt > controller.nextSpawnTime
           THEN \E d \in LiveDraws : MeteorFrame(time + dt, d)
           ELSE MeteorFrame(time + dt, NoDraws)

(***************************************************************************)
(* The gesture-driven App and its CameraHandler.                           *)
(***************************************************************************)
\* status and error texts
NoError == "null"
StatusInit == "Initializing..."
StatusModel == "Initializing Vision Model..."
StatusCamera == "Requesting Camera..."
StatusReady == "Ready"
ErrInsecure == "Camera requires HTTPS or Localhost. Use Mouse/Touch instead."
ErrModel == "Failed to load model. Use Mouse/Touch instead."
ErrDeniedFirst == "camera permission denied (retry button)"
ErrDeniedFinal == "camera permission denied (browser settings)"
ErrDeniedChanged == "camera permission has been denied (permission change)"
ErrNotFound == "no camera device found"
ErrUnavailable == "camera unavailable: <message>"

(***************************************************************************)
(* ParticleScene: blobCache and useBlobUrl.                                *)

\* the media URLs the components ask for
MediaUrls == {"photo", "video"}

\* an entry of blobCache; "absent" stands for a URL the Map has no entry for
AbsentEntry == [status |-> "absent", data |-> 0]
PendingEntry == [status |-> "pending", data |-> 0]
ResolvedEntry(objUrl) == [status |-> "resolved", data |-> objUrl]
RejectedEntry == [status |-> "rejected", data |-> 0]

\* const blobCache = new Map()
InitBlobCache ==
    /\ blobCache = [u \in MediaUrls |-> AbsentEntry]
    /\ fetchStarts = [u \in MediaUrls |-> 0]
    /\ inFlight = [u \in MediaUrls |-> 0]
    /\ objectUrls = 0
    /\ blobCalls = 0
    /\ lastBlob = [url |-> "none", left |-> "none"]

\* faulty variant: a rejected entry counts as no entry
HasUnlessRejected(cache, url) == cache[url].status \notin {"absent", "rejected"}

\* blobCache.has(url)
Has(cache, url) == cache[url].status # "absent"

\* useBlobUrl(url): a cached entry returns its data or throws its error or
\* its promise; otherwise fetchWithFallback(url) runs up to its first await
\* (fetch is called), the entry becomes pending and the promise is thrown
useBlobUrl(url) ==
    IF Has(blobCache, url)
    THEN /\ lastBlob' = [url |-> url,
                         left |-> CASE blobCache[url].status = "resolved" -> "returned data"
                                    [] blobCache[url].status = "rejected" -> "threw error"
                                    [] OTHER -> "threw promise"]
         /\ UNCHANGED <<blobCache, fetchStarts, inFlight>>
    ELSE /\ fetchStarts' = [fetchStarts EXCEPT ![url] = @ + 1]
         /\ inFlight' = [inFlight EXCEPT ![url] = @ + 1]
         /\ blobCache' = [blobCache EXCEPT ![url] = PendingEntry]
         /\ lastBlob' = [url |-> url, left |-> "threw promise"]

\* what the App, the scene and the camera keep during a step of the cache
MediaFrame ==
    UNCHANGED <<genVars, sceneVars, appVars, meteorVars, obsVars,
                gAppVars, ptrVars, camVars, detVars>>

\* A component that reads a media URL renders.
UseBlobUrlCall ==
    /\ blobCalls < MaxBlobCalls
    /\ \E url \in MediaUrls : useBlobUrl(url)
    /\ blobCalls' = blobCalls + 1
    /\ UNCHANGED objectUrls
    /\ MediaFrame

\* The promise of a fetchWithFallback call settles: with res.ok and a blob the
\* .then callback stores the object URL; a network error, a response that is
\* not ok or a failing blob() reaches the .catch callback.
FetchSettles ==
    /\ \E url \in MediaUrls :
          /\ inFlight[url] > 0
          /\ inFlight' = [inFlight EXCEPT ![url] = @ - 1]
          /\ \E ok \in BOOLEAN :
                IF ok
                THEN /\ objectUrls' = objectUrls + 1
                     /\ blobCache' = [blobCache EXCEPT ![url] = ResolvedEntry(objectUrls + 1)]
                ELSE /\ blobCache' = [blobCache EXCEPT ![url] = RejectedEntry]
                     /\ UNCHANGED objectUrls
    /\ UNCHANGED <<fetchStarts, blobCalls, lastBlob>>
    /\ MediaFrame

(***************************************************************************)
(* gestureService: detectGestures and its history.  Coordinates and         *)
(* distances are in thousandths of the normalised image size.               *)

HistoryLimit == 10
WaveWindow == 5
WaveTolerance == 20
WaveTravel == 100
\* calculateFingerPinch(previousGestureResult.pinchPosition, {x, y}) || 0.1:
\* the two points have no z, the distance is NaN and the fallback 0.1 is taken
PrevAvgDistance == 100
ZoomMargin == 10

\* previousGestureResult = null
NoPrevious == [null |-> TRUE]

\* the result returned without a landmarker or without a hand in the frame
EmptyResult ==
    [ fiveFingerPinch |-> FALSE, twoFingerPinch |-> FALSE,
      threeFingerPinch |-> FALSE, upwardWave |-> FALSE, downwardWave |-> FALSE,
      pinchPosition |-> [x |-> 0, y |-> 0], pinchDelta |-> [x |-> 0, y |-> 0],
      zoomDirection |-> "null" ]

\* detectForVideo finds no hand: result.landmarks is empty
NoHand == [landmarks |-> 0]

\* what detectGestures derives from the landmarks of a hand: the number of
\* extended fingers, the four distances between neighbouring finger tips and
\* the centroid of the five tips.  A five-finger pinch high in the image and
\* a three-finger pinch in its middle.
Hands ==
    { [ landmarks |-> 1,
        extendedFingers |-> 5, thumbIndexDistance |-> 50,
        indexMiddleDistance |-> 50, middleRingDistance |-> 50,
        ringPinkyDistance |-> 50, centroid |-> [x |-> 500, y |-> 300] ],
      [ landmarks |-> 1,
        extendedFingers |-> 3, thumbIndexDistance |-> 40,
        indexMiddleDistance |-> 40, middleRingDistance |-> 200,
        ringPinkyDistance |-> 200, centroid |-> [x |-> 500, y |-> 500] ] }

InitDetect ==
    /\ gestureHistory = << >>
    /\ previousGestureResult = NoPrevious
    /\ detected = [path |-> "none", result |-> EmptyResult]
    /\ handCalls = 0
    /\ detectBit = FALSE

\* detectWaveGesture(direction) on the history h
detectWaveGesture(h, direction) ==
    IF Len(h) < WaveWindow
    THEN FALSE
    ELSE LET yPositions == [i \in 1 .. WaveWindow |->
                               h[Len(h) - WaveWindow + i].pinchPosition.y]
         IN  IF direction = "up"
             THEN /\ \A i \in 2 .. WaveWindow :
                        yPositions[i] < yPositions[i - 1] + WaveTolerance
                  /\ yPositions[1] - yPositions[WaveWindow] > WaveTravel
             ELSE /\ \A i \in 2 .. WaveWindow :
                        yPositions[i] > yPositions[i - 1] - WaveTolerance
                  /\ yPositions[WaveWindow] - yPositions[1] > WaveTravel

\* the gestureResult detectGestures builds for a hand, given the history and
\* the previous result
GestureOf(hand, h, prev) ==
    LET threeFingerPinch == /\ hand.extendedFingers = 3
                            /\ hand.thumbIndexDistance < 60
                            /\ hand.indexMiddleDistance < 60
        \* twice the average, against twice the bounds
        currentSum == hand.thumbIndexDistance + hand.indexMiddleDistance
    IN  [ fiveFingerPinch |-> /\ hand.extendedFingers = 5
                              /\ hand.thumbIndexDistance < 80
                              /\ hand.indexMiddleDistance < 80
                              /\ hand.middleRingDistance < 80
                              /\ hand.ringPinkyDistance < 80,
          twoFingerPinch |-> hand.extendedFingers = 2 /\ hand.thumbIndexDistance < 60,
          threeFingerPinch |-> threeFingerPinch,
          upwardWave |-> detectWaveGesture(h, "up"),
          downwardWave |-> detectWaveGesture(h, "down"),
          pinchPosition |-> hand.centroid,
          pinchDelta |-> IF prev = NoPrevious
                         THEN [x |-> 0, y |-> 0]
                         ELSE [x |-> hand.centroid.x - prev.pinchPosition.x,
                               y |-> hand.centroid.y - prev.pinchPosition.y],
          zoomDirection |->
              IF threeFingerPinch /\ prev # NoPrevious /\ prev.threeFingerPinch
              THEN IF currentSum < 2 * (PrevAvgDistance - ZoomMargin) THEN "out"
                   ELSE IF currentSum > 2 * (PrevAvgDistance + ZoomMargin) THEN "in"
                   ELSE "null"
              ELSE "null" ]

\* faulty variant: the history is never shortened
PushHistoryUncapped(h, r) == Append(h, r)

\* gestureHistory.push(gestureResult); if (length > 10) gestureHistory.shift()
PushHistory(h, r) ==
    LET pushed == Append(h, r)
    IN  IF Len(pushed) > HistoryLimit THEN Tail(pushed) ELSE pushed

\* detectGestures(video): frameInput is what detectForVideo finds in the frame
detectGestures(frameInput) ==
    IF ~handLandmarker
    THEN /\ detected' = [path |-> "no landmarker", result |-> EmptyResult]
         /\ UNCHANGED <<gestureHistory, previousGestureResult, handCalls>>
    ELSE IF frameInput.landmarks = 0
    THEN /\ detected' = [path |-> "no hand", result |-> EmptyResult]
         /\ UNCHANGED <<gestureHistory, previousGestureResult, handCalls>>
    ELSE LET gestureResult == GestureOf(frameInput, gestureHistory, previousGestureResult)
         IN  /\ gestureHistory' = PushHistory(gestureHistory, gestureResult)
             /\ previousGestureResult' = gestureResult
             /\ detected' = [path |-> "hand", result |-> gestureResult]
             /\ handCalls' = handCalls + 1

\* what the App, the scene, the pointer and the cache keep during a step of
\* the gesture service
DetectFrame ==
    UNCHANGED <<genVars, sceneVars, appVars, meteorVars, obsVars,
                gAppVars, ptrVars, mediaVars>>

\* what CameraHandler keeps, the landmarker aside
CameraIdle ==
    UNCHANGED <<isMounted, videoRef, camPc, stream, srcObject, rafPending,
                seen, delivered, lastGesture, gestureBit, permissions>>

\* initializeHandLandmarker succeeds: handLandmarker is set
LandmarkerCreated ==
    /\ ~handLandmarker
    /\ handLandmarker' = TRUE
    /\ UNCHANGED detVars
    /\ CameraIdle /\ DetectFrame

\* detectGestures is called on a video frame
DetectCall ==
    /\ \E frameInput \in Hands \cup {NoHand} :
          /\ (handLandmarker /\ frameInput.landmarks > 0) => handCalls < MaxHandCalls
          /\ detectGestures(frameInput)
    /\ detectBit' = ~detectBit
    /\ UNCHANGED handLandmarker
    /\ CameraIdle /\ DetectFrame

\* resetGestures
resetGestures ==
    /\ gestureHistory' = << >>
    /\ previousGestureResult' = NoPrevious
    /\ UNCHANGED <<detected, handCalls, detectBit, handLandmarker>>
    /\ CameraIdle /\ DetectFrame

\* useState / useRef initial values of the gesture-driven App, the browser
\* idle, CameraHandler rendered and its effect about to run
InitGestureApp ==
    /\ modeLocked = FALSE
    /\ showNearestMaterial = FALSE
    /\ status = StatusInit
    /\ error = NoError
    /\ pointerPhase = "idle"
    /\ lastPointer = "none"
    /\ tapFlips = 0
    /\ isMounted = TRUE
    /\ videoRef = TRUE
    /\ camPc = "mount"
    /\ stream = "none"
    /\ srcObject = FALSE
    /\ rafPending = FALSE
    /\ handLandmarker = FALSE
    /\ seen = [modeLocked |-> FALSE, shape |-> CurrentShape(FALSE, FALSE)]
    /\ delivered = 0
    /\ lastGesture = EmptyResult
    /\ gestureBit = FALSE
    /\ permissions = "unread"
    /\ InitBlobCache
    /\ InitDetect

\* faulty variant: the toggle follows the pinch flag of each result
handleGestureFollow(gesture) ==
    /\ manualToggle' = gesture.fiveFingerPinch
    /\ modeLocked' = gesture.fiveFingerPinch
    /\ UNCHANGED showNearestMaterial

\* handleGestureDetected of the render the running handler was mounted in:
\* modeLocked and currentShape are the values that render saw (seen); the
\* state setters act on the current state
handleGestureDetected(gesture) ==
    IF gesture.fiveFingerPinch
    THEN /\ modeLocked' = TRUE
         /\ manualToggle' = TRUE
         /\ UNCHANGED showNearestMaterial
    ELSE IF gesture.upwardWave /\ seen.modeLocked
    THEN /\ modeLocked' = FALSE
         /\ manualToggle' = FALSE
         /\ showNearestMaterial' = FALSE
    ELSE IF gesture.twoFingerPinch /\ seen.shape = "TREE"
    THEN UNCHANGED <<modeLocked, manualToggle, showNearestMaterial>>
    ELSE IF gesture.threeFingerPinch
    THEN UNCHANGED <<modeLocked, manualToggle, showNearestMaterial>>
    ELSE IF gesture.downwardWave /\ seen.modeLocked /\ seen.shape = "TREE"
    THEN /\ showNearestMaterial' = ~showNearestMaterial
         /\ UNCHANGED <<modeLocked, manualToggle>>
    ELSE UNCHANGED <<modeLocked, manualToggle, showNearestMaterial>>

\* handleClick
handleClick ==
    /\ manualToggle' = ~manualToggle
    /\ UNCHANGED <<isCameraPinching, dragStart>>
    /\ Render
    /\ UNCHANGED <<genVars, sceneVars, meteorVars, lastDelta, frame, gAppVars, camVars, svcVars>>

\* clientX / clientY of the pointer events on the Canvas: a corner, a point
\* less than 5 px from it along an axis and 5 px or more across, a far point
CanvasCoords == {0, 4, MaxCoord}

\* The browser delivers pointerdown to the Canvas.
CanvasPointerDown ==
    /\ isMounted /\ pointerPhase = "idle"
    /\ \E x \in CanvasCoords, y \in CanvasCoords : handlePointerDown(x, y)
    /\ pointerPhase' = "down"
    /\ lastPointer' = "none"
    /\ tapFlips' = 0

\* The browser delivers pointerup.  A click event follows when the pointer was
\* a tap; after a drag it follows for a mouse (same target element) and not
\* for a touch that moved.
CanvasPointerUp ==
    /\ isMounted /\ pointerPhase = "down"
    /\ \E x \in CanvasCoords, y \in CanvasCoords :
          LET tap == IsClick(x - dragStart.x, y - dragStart.y)
          IN  /\ handlePointerUp(x, y)
              /\ lastPointer' = IF tap THEN "tap" ELSE "drag"
              /\ tapFlips' = IF tap THEN tapFlips + 1 ELSE tapFlips
              /\ pointerPhase' \in (IF tap THEN {"click"} ELSE {"click", "idle"})

\* The browser delivers the click: onClick={handleClick}.
CanvasClick ==
    /\ isMounted /\ pointerPhase = "click"
    /\ handleClick
    /\ tapFlips' = tapFlips + 1
    /\ pointerPhase' = "idle"
    /\ UNCHANGED lastPointer

\* what the scene, the meteors and the pointer keep during a CameraHandler step
CameraFrame == UNCHANGED <<genVars, sceneVars, meteorVars, ptrVars, mediaVars, seen>>

\* a CameraHandler step that calls neither detectGestures nor
\* onGestureDetected
NoDelivery ==
    UNCHANGED <<appVars, obsVars, modeLocked, showNearestMaterial,
                delivered, lastGesture, gestureBit, detVars>>

\* The effect runs startCamera() up to its first await.
StartCamera ==
    /\ camPc = "mount"
    /\ \E isSecureContext \in BOOLEAN :
          IF ~isSecureContext
          THEN /\ error' = IF isMounted THEN ErrInsecure ELSE error
               /\ camPc' = "done"
               /\ UNCHANGED status
          ELSE /\ status' = IF isMounted THEN StatusModel ELSE status
               /\ camPc' = "awaitModel"
               /\ UNCHANGED error
    /\ UNCHANGED <<isMounted, videoRef, stream, srcObject, rafPending, handLandmarker,
                   permissions>>
    /\ NoDelivery /\ CameraFrame

\* await initializeHandLandmarker() settles; on success startCamera goes on
\* into requestCameraStream with the preferred constraints, up to its first
\* await: the permission query where 'permissions' in navigator (read here
\* for the first time), getUserMedia elsewhere.
ModelLoaded ==
    /\ camPc = "awaitModel"
    /\ \E success \in BOOLEAN :
          /\ handLandmarker' = success
          /\ IF ~success
             THEN /\ error' = IF isMounted THEN ErrModel ELSE error
                  /\ camPc' = "done"
                  /\ UNCHANGED <<status, permissions>>
             ELSE /\ status' = IF isMounted THEN StatusCamera ELSE status
                  /\ \E hasPermissions \in BOOLEAN :
                        /\ permissions' = IF hasPermissions THEN "present" ELSE "absent"
                        /\ camPc' = IF hasPermissions THEN "awaitQuery1" ELSE "awaitMedia1"
                  /\ UNCHANGED error
    /\ UNCHANGED <<isMounted, videoRef, stream, srcObject, rafPending>>
    /\ NoDelivery /\ CameraFrame

\* await navigator.permissions.query({name: 'camera'}) settles, in the first
\* or in the fallback request, with a state or with a rejection.  The Error
\* thrown for the state "denied" and a rejection are caught inside
\* requestCameraStream; for the other states permissionStatus.onchange is
\* installed.  getUserMedia is called next.
PermissionQueried ==
    /\ camPc \in {"awaitQuery1", "awaitQuery2"}
    /\ \E state \in {"granted", "prompt", "denied", "rejected"} :
          permissions' = IF state \in {"granted", "prompt"} THEN "listening"
                         ELSE permissions
    /\ camPc' = IF camPc = "awaitQuery1" THEN "awaitMedia1" ELSE "awaitMedia2"
    /\ UNCHANGED <<isMounted, videoRef, stream, srcObject, rafPending,
                   handLandmarker, status, error>>
    /\ NoDelivery /\ CameraFrame

\* how getUserMedia settles: a stream, or an exception with this name
\* ("Error": any name the catch blocks do not test for)
MediaOutcomes == {"stream", "NotAllowedError", "NotFoundError", "Error"}

\* the message of the final catch block
FinalError(name) ==
    IF name \in {"NotAllowedError", "PermissionDeniedError"} THEN ErrDeniedFinal
    ELSE IF name \in {"NotFoundError", "OverconstrainedError"} THEN ErrNotFound
    ELSE ErrUnavailable

\* await navigator.mediaDevices.getUserMedia(constraints) settles, in the
\* first request (preferred constraints) or in the fallback request; after a
\* failure of the first request the fallback request runs up to its first
\* await.
MediaResolved ==
    /\ camPc \in {"awaitMedia1", "awaitMedia2"}
    /\ \E outcome \in MediaOutcomes :
          IF outcome = "stream"
          THEN /\ stream' = "live"
               /\ srcObject' = (videoRef /\ isMounted)
               /\ camPc' = IF videoRef /\ isMounted THEN "awaitData" ELSE "done"
               /\ UNCHANGED error
          ELSE /\ UNCHANGED <<stream, srcObject>>
               /\ IF camPc = "awaitMedia1"
                  THEN IF outcome = "NotAllowedError" /\ isMounted
                       THEN error' = ErrDeniedFirst /\ camPc' = "done"
                       ELSE /\ UNCHANGED error
                            /\ camPc' = IF permissions = "absent"
                                        THEN "awaitMedia2" ELSE "awaitQuery2"
                  ELSE /\ error' = IF isMounted THEN FinalError(outcome) ELSE error
                       /\ camPc' = "done"
    /\ UNCHANGED <<isMounted, videoRef, status, rafPending, handLandmarker,
                   permissions>>
    /\ NoDelivery /\ CameraFrame

\* what predictWebcam finds in the video element: its videoWidth (0 while no
\* frame is decoded) and what detectForVideo finds in the frame
VideoFrames ==
    {[videoWidth |-> 0, found |-> NoHand]}
        \cup {[videoWidth |-> 320, found |-> f] : f \in Hands \cup {NoHand}}

\* the frames a run goes on with: frames with a hand are counted up to limit
FramesWithin(limit) ==
    {video \in VideoFrames :
        (video.videoWidth > 0 /\ video.found.landmarks > 0) => handCalls < limit}

\* predictWebcam: with a video element of positive width detectGestures is
\* called on it and its result goes to onGestureDetected; then the next
\* animation frame is requested.
predictWebcam(video) ==
    /\ IF videoRef /\ video.videoWidth > 0
       THEN /\ detectGestures(video.found)
            /\ detectBit' = ~detectBit
            /\ handleGestureDetected(detected'.result)
            /\ lastGesture' = detected'.result
            /\ gestureBit' = ~gestureBit
            /\ delivered' = Min(delivered + 1, MaxDelivered)
            /\ UNCHANGED <<isCameraPinching, dragStart>>
            /\ Render
            /\ UNCHANGED <<lastDelta, frame>>
       ELSE NoDelivery
    /\ rafPending' = TRUE

\* videoRef.current.onloadeddata fires: the awaited promise resolves and
\* requestCameraStream goes on to its end.
LoadedDataWithin(limit) ==
    /\ camPc = "awaitData" /\ stream = "live"
    /\ status' = IF isMounted THEN StatusReady ELSE status
    /\ \E video \in FramesWithin(limit) : predictWebcam(video)
    /\ camPc' = "done"
    /\ UNCHANGED <<isMounted, videoRef, stream, srcObject, handLandmarker, error,
                   permissions>>
    /\ CameraFrame

\* The animation frame requested by predictWebcam arrives.
PredictFrameWithin(limit) ==
    /\ rafPending
    /\ \E video \in FramesWithin(limit) : predictWebcam(video)
    /\ UNCHANGED <<isMounted, videoRef, camPc, stream, srcObject, handLandmarker,
                   status, error, permissions>>
    /\ CameraFrame

LoadedData == LoadedDataWithin(MaxGestureHands)
PredictFrame == PredictFrameWithin(MaxGestureHands)

\* the same two steps in the runs that follow a wave
WaveLoadedData == LoadedDataWithin(MaxWaveHands)
WavePredictFrame == PredictFrameWithin(MaxWaveHands)

\* permissionStatus.onchange runs with the state "denied"
PermissionChanged ==
    /\ permissions = "listening"
    /\ error' = IF isMounted THEN ErrDeniedChanged ELSE error
    /\ UNCHANGED <<isMounted, videoRef, camPc, stream, srcObject, rafPending,
                   handLandmarker, status, permissions>>
    /\ NoDelivery /\ CameraFrame

\* The view is torn down: the effect's cleanup runs.  React clears the ref of
\* an unmounted element before it runs the cleanup of a passive effect; a
\* cleanup run for a development-mode remount finds it set.
Teardown ==
    /\ isMounted /\ camPc # "mount"
    /\ isMounted' = FALSE
    /\ rafPending' = FALSE
    /\ \E refAtCleanup \in {FALSE, videoRef} :
          stream' = IF refAtCleanup /\ srcObject /\ stream = "live"
                    THEN "stopped" ELSE stream
    /\ videoRef' = FALSE
    /\ UNCHANGED <<camPc, srcObject, handLandmarker, status, error, permissions>>
    /\ NoDelivery /\ CameraFrame

(***************************************************************************)
(* Specifications.                                                         *)
(***************************************************************************)
\* the generator: ParticleScene's first render
InitGen ==
    /\ InitUngenerated /\ InitApp /\ InitMeteors /\ InitObs /\ InitGestureApp
NextGen == Generate
SpecGen == InitGen /\ [][NextGen]_vars

\* the shape selector
Init == InitGenerated /\ InitApp /\ InitMeteors /\ InitObs /\ InitGestureApp
Next == PinchChange \/ PointerDown \/ PointerUp
Spec == Init /\ [][Next]_vars

\* the morph engine under arbitrary frame deltas and shape changes
NextMorph == Frame \/ Pinch
SpecMorph == Init /\ [][NextMorph]_vars

\* the morph engine at a steady 60 Hz, the pinch starting once
NextSteady == SteadyFrame \/ PinchOnce \/ PinchRelease
SpecSteady == Init /\ [][NextSteady]_vars

\* the morph engine at a steady rate of 60 Hz, 30 Hz or 2 Hz
NextRate == RateFrame \/ PinchOnce \/ PinchRelease
SpecRate == Init /\ [][NextRate]_vars

\* the gesture-driven App with its CameraHandler
NextGesture ==
    \/ CanvasPointerDown \/ CanvasPointerUp \/ CanvasClick
    \/ StartCamera \/ ModelLoaded \/ PermissionQueried \/ MediaResolved
    \/ LoadedData \/ PredictFrame \/ PermissionChanged \/ Teardown
InitGesture == Init /\ particles = GenResult({}, 1).particles
SpecGesture == InitGesture /\ [][NextGesture]_vars

\* the camera loop alone, over frames enough for a wave
NextWave ==
    \/ StartCamera \/ ModelLoaded \/ PermissionQueried \/ MediaResolved
    \/ WaveLoadedData \/ WavePredictFrame
SpecWave == InitGesture /\ [][NextWave]_vars

\* the media components and the fetches of the blob cache
NextMedia == UseBlobUrlCall \/ FetchSettles
SpecMedia == Init /\ [][NextMedia]_vars

\* the gesture service called frame after frame
NextDetect == LandmarkerCreated \/ DetectCall \/ resetGestures
SpecDetect == Init /\ [][NextDetect]_vars

\* the per-shapeType dispatch of a frame
InitDispatch == InitTypesDrawn /\ InitApp /\ InitMeteors /\ InitObs /\ InitGestureApp
NextDispatch == DispatchFrame
SpecDispatch == InitDispatch /\ [][NextDispatch]_vars

\* the meteor slot pool over several bursts
NextPool == PoolTick
SpecPool == Init /\ [][NextPool]_vars

\* the meteor spawner
NextMeteor == MeteorTick
SpecMeteor == Init /\ [][NextMeteor]_vars

\* the meteor spawner while frames keep arriving: the render loop calls the
\* useFrame callback again and again, up to the clock time the run goes to
NextLive == LiveTick
SpecLive == Init /\ [][NextLive]_vars /\ WF_vars(LiveTick)

(***************************************************************************)
(* Properties.                                                             *)
(***************************************************************************)
\* the band whose recorded index range holds i
BandsHolding(i) == {b \in Bands : bands[b].n > 0 /\ bands[b].first <= i /\ i <= bands[b].last}

\* C1: in the generated layout every index of [0, N) lies in exactly one of
\* the bands star, garland, body; each band is a contiguous index range, star
\* = [0, STAR_COUNT), garland = [STAR_COUNT, STAR_COUNT + GARLAND_COUNT), body
\* = the rest; and STAR_COUNT + GARLAND_COUNT <= N.
C1_BandPartition ==
    generated =>
        /\ \A i \in 0 .. (dataLen - 1) : Cardinality(BandsHolding(i)) = 1
        /\ \A b \in Bands : bands[b].n = bands[b].last - bands[b].first + 1
        /\ bands["star"].n + bands["garland"].n + bands["body"].n = dataLen
        /\ bands["star"].first = 0 /\ bands["star"].last = STAR_COUNT - 1
        /\ bands["garland"].first = STAR_COUNT
        /\ bands["garland"].last = STAR_COUNT + GARLAND_COUNT - 1
        /\ bands["body"].first = STAR_COUNT + GARLAND_COUNT
        /\ bands["body"].last = dataLen - 1
        /\ STAR_COUNT + GARLAND_COUNT <= dataLen
        /\ \A i \in Tracked : particles[i].band \in BandsHolding(i)

\* C1 witness: a generated layout in which all three bands are populated
C1_Witness ==
    generated /\ \A b \in Bands : bands[b].n > 0

\* C2: with the built-in constants the generator returns exactly 6200 records,
\* star band [0, 800), garland band [800, 3300), body band [3300, 6200) of
\* size 2900.
C2_BuiltInLayout ==
    generated =>
        /\ dataLen = 6200
        /\ bands["star"] = [n |-> 800, first |-> 0, last |-> 799]
        /\ bands["garland"] = [n |-> 2500, first |-> 800, last |-> 3299]
        /\ bands["body"] = [n |-> 2900, first |-> 3300, last |-> 6199]

\* C2 witness: the generator has returned its records
C2_Witness ==
    generated /\ dataLen > 0 /\ bands["body"].n > 0 /\ Len(haloIndices) > 0

\* the garland-band indices pushed to the halo list
GarlandHalos == {i \in SeqRange(haloIndices) : BandOf(i) = "garland"}

\* C3: whatever the draws, two distinct garland-band highlight indices are at
\* least MIN_HALO_GAP apart, and a garland particle has the highlight colour
\* exactly when its index is in the halo list.
C3_HighlightSpacing ==
    generated =>
        /\ \A a \in GarlandHalos, b \in GarlandHalos :
              a # b => Abs(a - b) >= MIN_HALO_GAP
        /\ \A i \in Tracked :
              particles[i].band = "garland" =>
                 (i \in GarlandHalos <=> particles[i].targetColor.tree = colorHighlight)

\* C3 witness: two highlights were selected in the garland band
C3_Witness ==
    generated /\ Cardinality(GarlandHalos) >= 2

ActiveSlots == {s \in Slots : meteors[s].active}

\* C4: the number of active meteors never exceeds the pool size, and a slot
\* that holds an active meteor is never given to another one: from one frame
\* to the next an active slot either keeps its meteor or is deactivated.
C4_PoolSafety ==
    [][ /\ Cardinality(ActiveSlots') <= count
        /\ \A s \in Slots :
              (meteors[s].active /\ meteors'[s] # meteors[s])
                 => meteors'[s] = [meteors[s] EXCEPT !.active = FALSE] ]_vars

\* C4 witness: two meteors active at once, the first slot in use again by a
\* later burst
C4_Witness ==
    /\ meteors[1].active /\ meteors[2].active
    /\ meteors[1].startTime > 6 * MeteorTicksPerSecond

\* C10: the shape the scene receives is TREE exactly when the camera-pinch
\* flag or the manual toggle is set and GALAXY otherwise; it takes no third
\* value.
C10_ShapeIsOrOfFlags ==
    /\ shape \in Shapes
    /\ (shape = "TREE") <=> (isCameraPinching \/ manualToggle)
    /\ (shape = "GALAXY") <=> (~isCameraPinching /\ ~manualToggle)

\* C10 witness: the manual toggle alone selects the tree
C10_Witness ==
    manualToggle /\ ~isCameraPinching /\ shape = "TREE"

\* the target position and colour of particle p under the selected shape
GoalPos(p) == IF shape = "TREE" THEN p.targetPos.tree ELSE p.targetPos.galaxy
GoalColor(p) == IF shape = "TREE" THEN p.targetColor.tree ELSE p.targetColor.galaxy

\* squared distance between two points
Dist2(a, b) ==
    (a[1] - b[1]) * (a[1] - b[1]) + (a[2] - b[2]) * (a[2] - b[2])
        + (a[3] - b[3]) * (a[3] - b[3])

\* a frame callback has just run
FrameRan == frame' = frame + 1

\* C5: a frame with delta 0 leaves the current position and the current
\* colour of every particle unchanged, whichever shape is selected and
\* wherever the particle is.
C5_ZeroDeltaNoOp ==
    [][ (FrameRan /\ lastDelta' = 0) =>
           \A i \in Tracked :
              /\ particles'[i].currentPos = particles[i].currentPos
              /\ particles'[i].currentColor = particles[i].currentColor ]_vars

\* C5 witness: a delta-0 frame has run while a particle was away from the
\* target of the selected shape
C5_Witness ==
    /\ frame >= 2 /\ lastDelta = 0
    /\ \E i \in Tracked :
          /\ particles[i].currentPos # GoalPos(particles[i])
          /\ particles[i].currentPos # particles[i].targetPos.galaxy

\* v lies between a and b
Between(a, b, v) == Min(a, b) <= v /\ v <= Max(a, b)

\* C6: in every frame, for any delta (negative, zero or large), lerpFactor is
\* in [0, 1] and each coordinate of the new current position and each channel
\* of the new current colour lies between its previous value and the target of
\* the selected shape.
C6_ConvexStep ==
    [][ FrameRan =>
           /\ LerpFactor(lastDelta') \in 0 .. FrameTicksPerSecond
           /\ \A i \in Tracked, k \in 1..3 :
                 /\ Between(particles[i].currentPos[k], GoalPos(particles[i])[k],
                            particles'[i].currentPos[k])
                 /\ Between(particles[i].currentColor[k], GoalColor(particles[i])[k],
                            particles'[i].currentColor[k]) ]_vars

\* C6 witness: a frame longer than the clamp allows has put a particle exactly
\* on its tree target
C6_Witness ==
    /\ frame >= 1 /\ lastDelta > FrameTicksPerSecond /\ shape = "TREE"
    /\ \E i \in Tracked :
          /\ particles[i].currentPos = particles[i].targetPos.tree
          /\ particles[i].currentPos # particles[i].targetPos.galaxy

\* C7: with the shape fixed, a frame with a non-negative delta never increases
\* a particle's distance to the target position of the selected shape.
C7_DistanceNonIncreasing ==
    [][ (FrameRan /\ lastDelta' >= 0) =>
           \A i \in Tracked :
              Dist2(particles'[i].currentPos, GoalPos(particles[i]))
                 <= Dist2(particles[i].currentPos, GoalPos(particles[i])) ]_vars

\* C7 witness: two frames in a row towards the tree, the particle part-way
C7_Witness ==
    /\ frame >= 2 /\ lastDelta > 0 /\ shape = "TREE" /\ sinceSwitch >= 2
    /\ \E i \in Tracked :
          /\ particles[i].currentPos # particles[i].targetPos.tree
          /\ particles[i].currentPos # particles[i].targetPos.galaxy

\* tolerances, in position units: the rounding floor of a position at the
\* slowest steady rate (x += (v - x) * alpha rounds to x once |v - x| * alpha
\* is below half a unit in the last place, 15 units per coordinate at 1/60 s,
\* 15 * sqrt(3) < 26 for the three), then 0.1 and 1 scene unit
Tolerances == {26, 100, 1000}

\* frames after which the distance is within the tolerance
SettleFrames(eps) ==
    CASE eps = 1000 -> 100
      [] eps = 100  -> 170
      [] eps = 26   -> 230

\* the positions are at rest: a further frame with the delta of the frames so
\* far would move no coordinate of any particle
AtRest ==
    /\ frame > 0
    /\ \A i \in Tracked :
          Lerp3(particles[i].currentPos, GoalPos(particles[i]), LerpFactor(lastDelta))
             = particles[i].currentPos

\* every particle is less than eps from the target position of the selected shape
AllBelow(eps) ==
    \A i \in Tracked :
       Dist2(particles[i].currentPos, GoalPos(particles[i])) < eps * eps

\* every particle is within eps of the target position of the selected shape
AllWithin(eps) ==
    \A i \in Tracked :
       Dist2(particles[i].currentPos, GoalPos(particles[i])) <= eps * eps

C9_OnePercentAfter180 ==
    (shape = "TREE" /\ switches = 1 /\ sinceSwitch >= 180) =>
        \A i \in Tracked :
           100 * Dist2(particles[i].currentPos, particles[i].targetPos.tree)
              <= Dist2(particles[i].targetPos.galaxy, particles[i].targetPos.tree) \div 100

\* C9 witness: exactly 180 frames after the switch to the tree
C9_Witness ==
    /\ shape = "TREE" /\ switches = 1 /\ sinceSwitch = 180
    /\ \E i \in Tracked : particles[i].currentPos # particles[i].targetPos.tree

\* C11: a tap on the scene (pointerdown, pointerup less than 5 px away and
\* the click the browser then delivers) flips the manual toggle exactly once;
\* a drag (pointerup 5 px or more away) leaves it unchanged.
C11_TapFlipsOnce ==
    pointerPhase = "idle" =>
        /\ lastPointer = "tap" => tapFlips = 1
        /\ lastPointer = "drag" => tapFlips = 0

\* C12: a gesture result with no gesture in it (tracking dropout) changes
\* neither the shape nor the lock, and no result without the upward wave
\* takes the shape from TREE back to GALAXY: losing the pinch never flips the
\* shape back, within the hold time or after it.
C12_NoFlipOnGestureLoss ==
    [][ (gestureBit' # gestureBit) =>
           /\ lastGesture' = EmptyResult =>
                 (shape' = shape /\ manualToggle' = manualToggle
                                 /\ modeLocked' = modeLocked)
           /\ (~lastGesture'.upwardWave /\ shape = "TREE") => shape' = "TREE" ]_vars

\* C12 witness: the tree was selected by a five-finger pinch and the latest
\* result delivered is a dropout
C12_Witness ==
    /\ shape = "TREE" /\ modeLocked /\ manualToggle
    /\ lastGesture = EmptyResult /\ rafPending /\ delivered >= 1

\* the start sequence of the camera handler ended without a stream
StartFailed == isMounted /\ camPc = "done" /\ stream = "none"

\* the failure is reported, no gesture result is delivered and none will be,
\* and the shape is the default until the user acts
C13_ReportedAndQuiet ==
    StartFailed =>
        /\ error # NoError
        /\ delivered = 0 /\ ~rafPending
        /\ (pointerPhase = "idle" /\ lastPointer = "none") => shape = "GALAXY"

\* C13: when the gesture pipeline fails to start, the failure is reported
\* through onError, no gesture result is delivered, the shape stays GALAXY
\* until the user acts, and a tap still switches the shape.
C13_DegradesToManualToggle ==
    /\ C13_ReportedAndQuiet
    /\ (StartFailed /\ pointerPhase = "idle" /\ lastPointer = "tap")
          => tapFlips % 2 = 1

\* C14: once the camera handler is torn down, no prediction callback is
\* scheduled and, when its start sequence has run to its end, no camera track
\* it acquired is still live.
C14_TeardownReleases ==
    ~isMounted =>
        /\ ~rafPending
        /\ camPc = "done" => stream # "live"

\* the record the generator pushed for index i, for the draws of profile prof
Generated(i, prof) == NewParticle(i, i \in SeqRange(haloIndices), DrawProfile(prof))

\* C15: after any frames and shape switches the array has its N records, and
\* apart from currentPos, currentColor and rotation every field of a record
\* (both target positions, both target colours, shapeType, rotationSpeed,
\* scale) is the one the generator assigned.
C15_OnlyCurrentStateWritten ==
    /\ dataLen = TOTAL_COUNT
    /\ \E prof \in Profiles : \A i \in Tracked :
          LET gen == Generated(i, prof)
          IN  [particles[i] EXCEPT !.currentPos = gen.currentPos,
                                   !.currentColor = gen.currentColor,
                                   !.rotation = gen.rotation] = gen

\* frames ran toward TREE after a switch: a particle has left its galaxy
\* position and turned, its galaxy target is where the generator put it
C15_Witness ==
    /\ frame >= 2 /\ switches >= 1 /\ shape = "TREE"
    /\ \E prof \in Profiles : \E i \in Tracked :
          /\ particles[i].targetPos.galaxy = Generated(i, prof).targetPos.galaxy
          /\ particles[i].currentPos # particles[i].targetPos.galaxy
          /\ particles[i].currentColor # particles[i].targetColor.galaxy
          /\ particles[i].rotation # Generated(i, prof).rotation

\* C16: every frame, whatever the shape and the delta, adds the particle's
\* rotationSpeed to its rotation in all three components: after any number
\* of frames the rotation is the generated one plus frame times rotationSpeed.
C16_RotationAdvancesByVelocity ==
    \E prof \in Profiles : \A i \in Tracked : \A k \in 1..3 :
        particles[i].rotation[k] =
            Generated(i, prof).rotation[k] + frame * particles[i].rotationSpeed[k]

\* C17: the number of meteors a new burst schedules is drawn from exactly
\* {1, 2, 3}: each of the three can be drawn and nothing else, so that after
\* the burst's first spawn at most two remain.
C17_BurstOfOneToThree ==
    /\ BurstDraws = {1, 2, 3}
    /\ controller.burstRemaining \in 0..2

\* slots whose meteor has been marked inactive
FreedSlots == {s \in Slots : ~meteors[s].active /\ meteors[s].life > 0}

\* what every frame leaves of an active meteor's brightness: within 0..1, 1
\* while the remaining life is at least fadeDuration, and below that
\* proportional to the remaining life (to the rounding of a thousandth)
FadeRamp ==
    \A s \in ActiveSlots :
        LET m == meteors[s]
            timeRemaining == m.life - (time - m.startTime)
        IN  /\ instanceColor[s] \in 0..1000
            /\ timeRemaining >= m.fadeDuration => instanceColor[s] = 1000
            /\ timeRemaining < m.fadeDuration =>
                  Abs(instanceColor[s] * m.fadeDuration - 1000 * timeRemaining)
                      <= m.fadeDuration

\* C18 as stated: an active meteor's brightness follows the ramp, and a slot
\* is inactive only once the elapsed time exceeds the life and the brightness
\* written is 0.
C18_FreedOnlyAtZeroBrightness ==
    /\ FadeRamp
    /\ \A s \in FreedSlots :
          /\ time - meteors[s].startTime > meteors[s].life
          /\ instanceColor[s] = 0

\* C18, amended: as above, the brightness written when the slot is freed
\* being 0 for a meteor whose fadeDuration is above 0; a meteor drawn with
\* fadeDuration 0 has no ramp and is freed at brightness 1.
C18_FadeThenFree ==
    /\ FadeRamp
    /\ \A s \in FreedSlots :
          /\ time - meteors[s].startTime > meteors[s].life
          /\ instanceColor[s] = IF meteors[s].fadeDuration > 0 THEN 0 ELSE 1000

\* one meteor of a burst freed at brightness 0 while the other is part-way
\* down its ramp
C18_Witness ==
    /\ \E s \in FreedSlots : meteors[s].fadeDuration > 0 /\ instanceColor[s] = 0
    /\ \E s \in ActiveSlots : instanceColor[s] > 0 /\ instanceColor[s] < 1000

\* C19: the hero particle, index 0, has the origin as galaxy target and the
\* apex (0, TREE_HEIGHT / 2 + 0.8, 0) as tree target, is in the halo index
\* list, and every frame writes its body matrix with scale 0 whatever its
\* stored scale and the shape.
C19_HeroParticle ==
    /\ particles[0].targetPos.galaxy = <<0, 0, 0>>
    /\ particles[0].targetPos.tree = <<0, (TREE_HEIGHT * PosUnit) \div 2 + 800, 0>>
    /\ 0 \in SeqRange(haloIndices)
    /\ frame >= 1 => instanceScale[0] = 0

\* frames have run with the tree selected; the hero's stored scale is above
\* 0 and the other bodies are written at their stored scale
C19_Witness ==
    /\ frame >= 2 /\ shape = "TREE" /\ switches >= 1
    /\ particles[0].scale > 0
    /\ instanceScale[0] = 0
    /\ \A i \in Tracked \ {0} : instanceScale[i] = particles[i].scale /\ instanceScale[i] > 0

\* C21: with the mode locked and the tree shown after a five-finger pinch,
\* a gesture result with upwardWave and no five-finger pinch delivered by the
\* camera loop returns the shape to GALAXY and clears the lock.
C21_UpwardWaveUnlocks ==
    [][ ( /\ gestureBit' # gestureBit
          /\ lastGesture'.upwardWave /\ ~lastGesture'.fiveFingerPinch
          /\ modeLocked /\ shape = "TREE" )
        => (shape' = "GALAXY" /\ ~modeLocked') ]_vars

\* the setMatrixAt calls of the latest frame that went to slot s of mesh k
WritesTo(k, s) == {w \in slotWrites : w.bucket = k /\ w.slot = s}

\* C22: the per-shapeType counts sum to the number of records, and after
\* every frame the five index counters stand at those counts, each particle
\* has been written to exactly one slot, of the mesh of its shapeType, every
\* slot written lies below the mesh's capacity counts[k], and every slot
\* below the capacity has been written exactly once.
C22_BucketDispatch ==
    /\ counts[0] + counts[1] + counts[2] + counts[3] + counts[4]
          = Cardinality(DOMAIN particles)
    /\ frame >= 1 =>
          /\ idxEnd = counts
          /\ \A i \in DOMAIN particles :
                /\ Cardinality({w \in slotWrites : w.particle = i}) = 1
                /\ \A w \in slotWrites :
                      w.particle = i => w.bucket = particles[i].shapeType
          /\ \A w \in slotWrites : w.slot >= 0 /\ w.slot < counts[w.bucket]
          /\ \A k \in ShapeKinds : \A s \in 0 .. (counts[k] - 1) :
                Cardinality(WritesTo(k, s)) = 1

\* a frame has dispatched records of which two share a mesh and one, of the
\* last shapeType, has a mesh of its own
C22_Witness ==
    /\ frame >= 1
    /\ counts[4] = 1
    /\ \E k \in ShapeKinds : counts[k] = 2 /\ Cardinality(WritesTo(k, 1)) = 1

\* C23: after a frame the five body meshes, the glare mesh, the halo mesh
\* and the media group have one rotation.y, the previous frame's plus
\* delta * 0.04, whatever the shape and the particles' own rotation.
C23_GlobalRotation ==
    [][ FrameRan =>
          /\ rotY' = rotY + lastDelta'
          /\ \A m \in OtherMeshes : meshRotY'[m] = rotY' ]_vars

\* frames with different deltas have turned the system under both shapes
\* while the particles turned by their own speeds
C23_Witness ==
    /\ frame >= 2 /\ switches >= 1 /\ shape = "TREE"
    /\ rotY > 0 /\ rotY # frame * lastDelta
    /\ \A m \in OtherMeshes : meshRotY[m] = rotY
    /\ \E i \in Tracked : particles[i].rotation[2] # rotY

\* C24: whenever a frame finds a spawn due (its clock time is past
\* nextSpawnTime), at least one of the six slots is inactive, so the branch
\* that retries 0.1 s later for want of a slot is never taken.
C24_SlotAvailableWhenDue ==
    [][ time' > controller.nextSpawnTime => \E s \in Slots : ~meteors[s].active ]_vars

\* a burst began while both meteors of the one before were still marked
\* active, so that the third slot was taken; both meteors of this burst are
\* active and the next frame, after a long gap, will find the next burst due
C24_Witness ==
    /\ Cardinality(ActiveSlots) = 2 /\ controller.burstRemaining = 0
    /\ meteors[3].active
    /\ \E dt \in PoolClockSteps :
          time + dt <= MaxPoolTime /\ time + dt > controller.nextSpawnTime

\* the frame about to run starts a new burst
BurstStarts == time' > controller.nextSpawnTime /\ controller.burstRemaining = 0

\* C25 as stated: whenever a new burst starts, every slot is inactive,
\* whatever the times of the frames.
C25_AllInactiveAtBurstStart ==
    [][ BurstStarts => ActiveSlots = {} ]_vars

\* C25, amended: whenever a new burst starts, every meteor still marked
\* active has outlived its life, and the update loop of that frame marks it
\* inactive: after the frame the meteor just spawned is the only active one.
C25_OnlyExpiredAtBurstStart ==
    [][ BurstStarts =>
          /\ \A s \in ActiveSlots : time' - meteors[s].startTime > meteors[s].life
          /\ \E n \in Slots :
                /\ meteors'[n].active /\ meteors'[n].startTime = time'
                /\ \A s \in Slots \ {n} : ~meteors'[s].active ]_vars

\* a burst of two has just begun in the third slot, the first two having
\* been marked active when the frame began and inactive when it ended
C25_Witness ==
    /\ ActiveSlots = {3} /\ meteors[3].startTime = time
    /\ controller.burstRemaining = 1
    /\ \A s \in {1, 2} : meteors[s].life > 0 /\ time - meteors[s].startTime > meteors[s].life

\* the clock has reached nextSpawnTime: the frame after next at the latest
\* finds the spawn due
SpawnPending == time >= controller.nextSpawnTime

\* a meteor has been spawned in the latest frame
JustSpawned == \E s \in Slots : meteors[s].active /\ meteors[s].startTime = time

\* C26: an active meteor is marked inactive in the first frame whose clock
\* time exceeds startTime + life, and while frames keep arriving every active
\* meteor is marked inactive in the end and every spawn that has come due
\* happens (for the meteors and spawns that the run's clock time leaves a
\* frame for).
C26_MeteorsEndAndSpawnsHappen ==
    /\ [][ \A s \in Slots :
             (meteors[s].active /\ time' - meteors[s].startTime > meteors[s].life)
                 => ~meteors'[s].active ]_vars
    /\ \A s \in Slots :
          (meteors[s].active /\ meteors[s].startTime + meteors[s].life < MaxLiveTime)
              ~> ~meteors[s].active
    /\ (SpawnPending /\ time < MaxLiveTime) ~> JustSpawned

\* one meteor has been marked inactive, another is active, and the clock has
\* passed the time of the next spawn
C26_Witness ==
    /\ FreedSlots # {} /\ ActiveSlots # {}
    /\ SpawnPending /\ time < MaxLiveTime


\* C27: the halo scale factor stays within [0, 1]: a frame with a
\* non-negative delta, run while the factor is within [0, 1], leaves it
\* within [0, 1], whichever shape is selected.
C27_HaloFactorInUnitRange ==
    [][ (FrameRan /\ lastDelta' >= 0 /\ haloScaleFactor \in 0 .. 1000)
            => haloScaleFactor' \in 0 .. 1000 ]_vars


\* C28: in the gesture-driven App, whenever modeLocked is true the current
\* shape is TREE, after any interleaving of gesture results and pointer
\* clicks.
C28_LockedImpliesTree == modeLocked => shape = "TREE"


\* the steps an entry of the blob cache may take
EntryStep(old, new) ==
    \/ new = old
    \/ old.status = "absent" /\ new.status = "pending"
    \/ old.status = "pending" /\ new.status \in {"resolved", "rejected"}

\* C29: for each media URL at most one fetch is started over the whole
\* session, whatever the order of the useBlobUrl calls and the fetch
\* completions; an entry only moves from absent to pending to resolved or
\* rejected, and a resolved or rejected entry never changes again.
C29_OneFetchPerUrl ==
    /\ [](\A url \in MediaUrls : fetchStarts[url] <= 1)
    /\ [][\A url \in MediaUrls : EntryStep(blobCache[url], blobCache'[url])]_vars

\* one URL resolved, the other rejected, and a component has asked again for
\* the rejected one
C29_Witness ==
    /\ \E url \in MediaUrls : blobCache[url].status = "resolved"
    /\ \E url \in MediaUrls :
          /\ blobCache[url].status = "rejected"
          /\ lastBlob = [url |-> url, left |-> "threw error"]
          /\ fetchStarts[url] = 1
    /\ blobCalls >= 4


DetectRan == detectBit' # detectBit

NoFlagSet(r) ==
    /\ ~r.fiveFingerPinch /\ ~r.twoFingerPinch /\ ~r.threeFingerPinch
    /\ ~r.upwardWave /\ ~r.downwardWave

\* C30: the gesture history never holds more than 10 results, and a result
\* pushed onto a full history drops the oldest one; a detectGestures call
\* without a landmarker or without a hand returns a result with no gesture
\* flag set and leaves the history and the previous result as they were.
C30_HistoryBounded ==
    /\ [](Len(gestureHistory) <= 10)
    /\ [][ DetectRan =>
             IF detected'.path = "hand"
             THEN /\ previousGestureResult' = detected'.result
                  /\ gestureHistory' =
                        IF Len(gestureHistory) = 10
                        THEN SubSeq(gestureHistory, 2, 10) \o <<detected'.result>>
                        ELSE gestureHistory \o <<detected'.result>>
             ELSE /\ NoFlagSet(detected'.result)
                  /\ gestureHistory' = gestureHistory
                  /\ previousGestureResult' = previousGestureResult ]_vars

\* the history is full and has dropped a result, and the latest call found
\* no hand
C30_Witness ==
    /\ Len(gestureHistory) = 10 /\ handCalls > 10
    /\ detected.path = "no hand"
    /\ previousGestureResult # NoPrevious

=============================================================================
